---- MODULE Spec2Model ----
(***************************************************************************)
(* CineAI: the structured-script parser (utils.parse_structured_script)    *)
(* and the cut-list driven assembler (utils.assemble_video).               *)
(*                                                                         *)
(* SpecParse runs parse_structured_script over every script of at most     *)
(* MaxLines lines; Spec runs assemble_video over every cut list of at most *)
(* MaxCuts entries; SpecCompose runs it over the cut lists whose entries   *)
(* reach the per-segment composition.  The media library (moviepy) is      *)
(* external: each of its calls either returns or raises, and the model     *)
(* takes both outcomes.                                                    *)
(***************************************************************************)
EXTENDS Integers, Sequences, FiniteSets, TLC

\* ------------------------------------------------------------------ bounds
MaxLines == 4
MaxCuts == 2
\* The length of the source footage, in seconds.
Duration == 4

\* ------------------------------------------------------- program constants
\* last_dialogue_index = -1
NoDialogue == -1

VARIABLES
    \* parse_structured_script
    lines,            \* text.split('\n')
    i,                \* the loop index of `for i, line in enumerate(lines)`
    script_cues,      \* the list being built
    dialogue_count,   \* the counter of emitted dialogue cues
    cue_line,         \* history: the marker line index of each emitted cue
    ppc,              \* "idle" | "loop" | "done"
    \* assemble_video: the arguments
    cut_list,
    b_roll_files,          \* filename -> path of the located b-roll assets
    b_roll_keyword_map,    \* ordered: <<[filename, keywords], ...>>
    logo_file,
    add_subtitles, add_b_roll, add_logo, add_overlays,
    \* assemble_video: the locals
    apc,              \* "idle" | "open" | "loop" | "concat" | "logo" | "encode" | "done"
    ci,               \* the loop index of `for i, cut in enumerate(cut_list)`
    final_clips,
    final_video,      \* <<>> while unset, <<the composition>> once concatenated
    handles,          \* every media handle opened so far, with its number of close() calls
    result,           \* "running" | "path" | "None" | "raised"
    escaped,          \* the call that raised out of assemble_video, or "none"
    \* assemble_video: history
    extracted,        \* the cut indices whose main_clip.subclip() returned
    matched,          \* cut index -> matched_b_roll_path, for the cuts that were matched
    steps,            \* for each extracted cut, how each later library call ended
    invoked,          \* the final-stage library calls made so far
    logo_failed,      \* the logo block raised and was caught
    written           \* <<>>, or <<what write_videofile was given, whether it returned>>

pvars == <<lines, i, script_cues, dialogue_count, cue_line, ppc>>

args == <<cut_list, b_roll_files, b_roll_keyword_map, logo_file,
          add_subtitles, add_b_roll, add_logo, add_overlays>>

avars == <<apc, ci, final_clips, final_video, handles, result, escaped,
           extracted, matched, steps, invoked, logo_failed, written>>

vars == <<pvars, args, avars>>

\* =====================================================================
\* parse_structured_script
\* =====================================================================

\* The raw lines a script is made of.  Each stands for a class of lines:
\* markers written in lower case, markers with other case and surrounding
\* blanks, the empty line, a blank-only line, and two content lines.
RawLines ==
    {"dialogue:", " Dialogue: ", "b-roll:", "OVERLAY:", "", "  ", " Hello ",
     " World "}

\* str.strip(): removes the leading and trailing blanks.
Strip(line) ==
    CASE line = " Dialogue: " -> "Dialogue:"
      [] line = "  "          -> ""
      [] line = " Hello "     -> "Hello"
      [] line = " World "     -> "World"
      [] OTHER                -> line

\* str.lower()
Lower(s) ==
    CASE s = "Dialogue:" -> "dialogue:"
      [] s = "OVERLAY:"  -> "overlay:"
      [] s = "Hello"     -> "hello"
      [] s = "World"     -> "world"
      [] OTHER           -> s

\* clean_line = line.strip().lower()
CleanLine(line) == Lower(Strip(line))

Markers == {"dialogue:", "b-roll:", "overlay:"}

\* cue_type = clean_line.replace(':', '')
CueType(clean_line) ==
    CASE clean_line = "dialogue:" -> "dialogue"
      [] clean_line = "b-roll:"   -> "b-roll"
      [] clean_line = "overlay:"  -> "overlay"
      [] OTHER                    -> clean_line

\* Python lists are 0-based: lst[k] is At(lst, k).
At(lst, k) == lst[k + 1]

RECURSIVE DialogueIndicesFrom(_, _)
DialogueIndicesFrom(ls, k) ==
    IF k >= Len(ls) THEN <<>>
    ELSE IF CleanLine(At(ls, k)) = "dialogue:"
         THEN <<k>> \o DialogueIndicesFrom(ls, k + 1)
         ELSE DialogueIndicesFrom(ls, k + 1)

\* dialogue_indices = [i for i, line in enumerate(lines)
\*                     if line.strip().lower() == 'dialogue:']
DialogueIndices(ls) == DialogueIndicesFrom(ls, 0)

\* list.index(v): the 0-based position of the first element equal to v.
ListIndex(lst, v) ==
    (CHOOSE k \in 1..Len(lst) :
        lst[k] = v /\ \A j \in 1..(k - 1) : lst[j] # v) - 1

RECURSIVE ScanDialogueIndices(_, _, _, _)
ScanDialogueIndices(dialogue_indices, k, line_no, last) ==
    IF k > Len(dialogue_indices) THEN last
    ELSE ScanDialogueIndices(dialogue_indices, k + 1, line_no,
            IF dialogue_indices[k] < line_no
            THEN ListIndex(dialogue_indices, dialogue_indices[k])
            ELSE last)

\* A wrong scan: it stops at the first dialogue marker before the line.
FirstDialogueIndex(dialogue_indices, line_no) ==
    IF \E k \in 1..Len(dialogue_indices) : dialogue_indices[k] < line_no
    THEN 0
    ELSE NoDialogue

\* last_dialogue_index = -1
\* for idx_dialogue_line in dialogue_indices:
\*     if idx_dialogue_line < i:
\*         last_dialogue_index = dialogue_indices.index(idx_dialogue_line)
LastDialogueIndex(dialogue_indices, line_no) ==
    ScanDialogueIndices(dialogue_indices, 1, line_no, NoDialogue)

\* A wrong counter: it counts every emitted cue, not the dialogue cues only.
CountEveryCue(cue_type, count) == count + 1

\* if cue_type == 'dialogue': ...; dialogue_count += 1
NextDialogueCount(cue_type, count) ==
    IF cue_type = "dialogue" THEN count + 1 ELSE count

\* The cue one marker line emits.
CueData(ls, line_no, count) ==
    LET cue_type == CueType(CleanLine(At(ls, line_no)))
    IN  [type |-> cue_type,
         content |-> Strip(At(ls, line_no + 1)),
         dialogue_index |->
            IF cue_type = "dialogue"
            THEN count
            ELSE LastDialogueIndex(DialogueIndices(ls), line_no)]

\* Whether the line at line_no is a marker followed by a non-empty content line.
EmitsCue(ls, line_no) ==
    /\ CleanLine(At(ls, line_no)) \in Markers
    /\ line_no + 1 < Len(ls)
    /\ Strip(At(ls, line_no + 1)) # ""

\* The loop's state: the cue list, the dialogue counter, and (history) the
\* marker line of each cue.
ParseStart == [cues |-> <<>>, count |-> 0, cue_line |-> <<>>]

\* The body of `for i, line in enumerate(lines)` at index line_no.
ParseStep(ls, line_no, st) ==
    IF EmitsCue(ls, line_no)
    THEN [cues |-> Append(st.cues, CueData(ls, line_no, st.count)),
          count |-> NextDialogueCount(CueType(CleanLine(At(ls, line_no))), st.count),
          cue_line |-> Append(st.cue_line, line_no)]
    ELSE st

RECURSIVE ParseFrom(_, _, _)
ParseFrom(ls, line_no, st) ==
    IF line_no >= Len(ls) THEN st
    ELSE ParseFrom(ls, line_no + 1, ParseStep(ls, line_no, st))

\* parse_structured_script(text), with text.split('\n') = ls
ParseScript(ls) == ParseFrom(ls, 0, ParseStart)

Scripts == UNION {[1..n -> RawLines] : n \in 1..MaxLines}

\* assemble_video is not running.
AssembleIdle ==
    /\ cut_list = <<>>
    /\ b_roll_files = <<>>
    /\ b_roll_keyword_map = <<>>
    /\ logo_file = "None"
    /\ add_subtitles = FALSE
    /\ add_b_roll = FALSE
    /\ add_logo = FALSE
    /\ add_overlays = FALSE
    /\ apc = "idle"
    /\ ci = 0
    /\ final_clips = <<>>
    /\ final_video = <<>>
    /\ handles = <<>>
    /\ result = "running"
    /\ escaped = "none"
    /\ extracted = {}
    /\ matched = <<>>
    /\ steps = <<>>
    /\ invoked = {}
    /\ logo_failed = FALSE
    /\ written = <<>>

ParseInit ==
    /\ lines \in Scripts
    /\ i = 0
    /\ script_cues = ParseStart.cues
    /\ dialogue_count = ParseStart.count
    /\ cue_line = ParseStart.cue_line
    /\ ppc = "loop"
    /\ AssembleIdle

\* One iteration of `for i, line in enumerate(lines)`.
ParseLine ==
    /\ ppc = "loop"
    /\ i < Len(lines)
    /\ LET st == ParseStep(lines, i, [cues |-> script_cues,
                                      count |-> dialogue_count,
                                      cue_line |-> cue_line])
       IN  /\ script_cues' = st.cues
           /\ dialogue_count' = st.count
           /\ cue_line' = st.cue_line
    /\ i' = i + 1
    /\ UNCHANGED <<lines, ppc, args, avars>>

\* return script_cues
ParseReturn ==
    /\ ppc = "loop"
    /\ i >= Len(lines)
    /\ ppc' = "done"
    /\ UNCHANGED <<lines, i, script_cues, dialogue_count, cue_line, args, avars>>

ParseNext == ParseLine \/ ParseReturn

SpecParse == ParseInit /\ [][ParseNext]_vars

\* =====================================================================
\* assemble_video
\* =====================================================================

\* A JSON number, and a JSON value that is no number (a string, null).
Num(n) == [num |-> TRUE, v |-> n]
NotANumber == [num |-> FALSE, v |-> 0]

\* Texts are sequences of characters over a small alphabet with one cased
\* letter pair per keyword.
LowerChar(c) ==
    CASE c = "C" -> "c"
      [] c = "D" -> "d"
      [] OTHER   -> c

\* str.lower()
LowerText(t) == [k \in 1..Len(t) |-> LowerChar(t[k])]

\* `kw in txt`: kw occurs in txt as a contiguous substring.
Contains(kw, txt) ==
    \E k \in 0..(Len(txt) - Len(kw)) : SubSeq(txt, k + 1, k + Len(kw)) = kw

TextCatDog == <<"C", "x", "d">>
TextOther == <<"x">>

AllKeys == {"start", "end", "text"}

\* A cut-list entry that is a JSON object with the given keys.
Cut(keys, s, e, t) ==
    [isdict |-> TRUE, keys |-> keys, start |-> s, end |-> e, text |-> t]

\* A cut-list entry that is no JSON object (null, a number, a string, a list).
NotADict ==
    [isdict |-> FALSE, keys |-> {}, start |-> NotANumber, end |-> NotANumber,
     text |-> <<>>]

\* json.loads() of the alignment answer: any JSON array.
CutSet ==
    { Cut(AllKeys, Num(1), Num(3), TextCatDog),
      Cut(AllKeys, Num(2), Num(4), TextOther),
      Cut(AllKeys, Num(3), Num(1), TextCatDog),
      Cut(AllKeys, Num(2), Num(2), TextCatDog),
      Cut({"start", "text"}, Num(1), NotANumber, TextCatDog),
      Cut(AllKeys, NotANumber, Num(3), TextCatDog),
      Cut(AllKeys, Num(Duration + 1), Num(Duration + 2), TextCatDog),
      NotADict }

CutLists == UNION {[1..n -> CutSet] : n \in 0..MaxCuts}

\* st.session_state.b_roll_keyword_map: filename -> [k.strip().lower() ...],
\* in insertion order; a keyword is empty after a doubled or trailing comma.
KeywordMaps ==
    { <<>>,
      << [filename |-> "a1", keywords |-> << <<"c">> >>],
         [filename |-> "a2", keywords |-> << <<>>, <<"d">> >>] >> }

\* b_roll_temp_paths: the files uploaded when Assemble is pressed.
BRollFiles ==
    { ("a1" :> "p1") @@ ("a2" :> "p2"),
      ("a2" :> "p2") }

\* The scripts whose cues are handed to assemble_video.
AssemblyScripts ==
    { <<"dialogue:", " Hello ">>,
      <<"OVERLAY:", " World ",
        "dialogue:", " Hello ", "OVERLAY:", " Hello ",
        "dialogue:", " Hello ", "OVERLAY:", " Hello ", "OVERLAY:", " World ">> }

\* dict.get(key): the value, or None.
Get(d, key) == IF key \in DOMAIN d THEN d[key] ELSE "None"

RECURSIVE OverlayMapFrom(_, _, _)
OverlayMapFrom(cues, k, m) ==
    IF k > Len(cues) THEN m
    ELSE OverlayMapFrom(cues, k + 1,
            IF cues[k].type = "overlay"
            THEN [x \in DOMAIN m \cup {cues[k].dialogue_index} |->
                    IF x = cues[k].dialogue_index THEN cues[k].content ELSE m[x]]
            ELSE m)

RECURSIVE OverlayMapFirstFrom(_, _, _)
OverlayMapFirstFrom(cues, k, m) ==
    IF k > Len(cues) THEN m
    ELSE OverlayMapFirstFrom(cues, k + 1,
            IF cues[k].type = "overlay" /\ cues[k].dialogue_index \notin DOMAIN m
            THEN [x \in DOMAIN m \cup {cues[k].dialogue_index} |->
                    IF x = cues[k].dialogue_index THEN cues[k].content ELSE m[x]]
            ELSE m)

\* A wrong map: the first overlay cue of a dialogue_index is kept.
OverlayMapFirstWins(cues) == OverlayMapFirstFrom(cues, 1, <<>>)

\* overlay_map = {cue['dialogue_index']: cue['content']
\*                for cue in script_cues if cue['type'] == 'overlay'}
OverlayMap(cues) == OverlayMapFrom(cues, 1, <<>>)

RECURSIVE KeywordHitFrom(_, _, _)
KeywordHitFrom(keywords, k, text) ==
    IF k > Len(keywords) THEN FALSE
    ELSE IF keywords[k] # <<>> /\ Contains(keywords[k], LowerText(text)) THEN TRUE
    ELSE KeywordHitFrom(keywords, k + 1, text)

\* for keyword in keywords: if keyword and keyword in dialogue_text.lower(): ... break
KeywordHit(keywords, text) == KeywordHitFrom(keywords, 1, text)

RECURSIVE ScanKeywordMap(_, _, _, _)
ScanKeywordMap(keyword_map, k, text, files) ==
    IF k > Len(keyword_map) THEN "None"
    ELSE LET path == IF KeywordHit(keyword_map[k].keywords, text)
                     THEN Get(files, keyword_map[k].filename)
                     ELSE "None"
         IN  IF path # "None" THEN path
             ELSE ScanKeywordMap(keyword_map, k + 1, text, files)

\* matched_b_roll_path after the loop over b_roll_keyword_map.items()
MatchedBRollPath(text, keyword_map, files) ==
    ScanKeywordMap(keyword_map, 1, text, files)

\* A wrong test: it lets an empty interval through.
IntervalNotBefore(s, e) == e >= s

\* if end_time > start_time:
IntervalValid(s, e) == e > s

\* cut['start'], cut['end'], cut['text'] and the arithmetic on them raise
\* (TypeError, KeyError) for an entry that is no object, lacks a key, or
\* holds a non-number.
CutRaises(cut) ==
    \/ ~cut.isdict
    \/ cut.keys # AllKeys
    \/ ~cut.start.num
    \/ ~cut.end.num

\* main_clip.subclip(start, end) raises when start is beyond the footage.
SubclipMustRaise(cut) == cut.start.v > Duration

\* VideoFileClip(...) returned: a new open handle.
Opened(hs, name) == Append(hs, [res |-> name, closes |-> 0])

\* main_clip.close()
CloseMain(hs) == [hs EXCEPT ![1].closes = @ + 1]

\* Wrong layers: one try block around both text layers, so that a subtitle
\* failure loses the overlay too.
LayersOneTry(cut, pos, subtitle_ok, overlay_ok) ==
    IF add_subtitles /\ ~subtitle_ok THEN <<>>
    ELSE (IF add_subtitles
          THEN <<[kind |-> "subtitle", text |-> cut.text]>> ELSE <<>>)
         \o
         (IF add_overlays /\ pos \in DOMAIN OverlayMap(script_cues) /\ overlay_ok
          THEN <<[kind |-> "overlay", text |-> OverlayMap(script_cues)[pos]]>> ELSE <<>>)

\* The layers stacked on the base clip of cut position pos.
Layers(cut, pos, subtitle_ok, overlay_ok) ==
    (IF add_subtitles /\ subtitle_ok
     THEN <<[kind |-> "subtitle", text |-> cut.text]>> ELSE <<>>)
    \o
    (IF add_overlays /\ pos \in DOMAIN OverlayMap(script_cues) /\ overlay_ok
     THEN <<[kind |-> "overlay", text |-> OverlayMap(script_cues)[pos]]>> ELSE <<>>)

\* current_clip = main_clip.subclip(start_time, end_time): the picture and
\* the sound of the source footage over the cut's interval.
SubClip(cut) ==
    [visual |-> "main",
     audio |-> [src |-> "main", start |-> cut.start.v, end |-> cut.end.v]]

\* A wrong substitution: the b-roll clip keeps its own sound.
BRollOwnAudio(path, current_clip) ==
    [visual |-> path,
     audio |-> [src |-> path, start |-> current_clip.audio.start,
                end |-> current_clip.audio.end]]

\* VideoFileClip(path).set_duration(clip_duration).resize(height=main_clip.h)
\*     .set_audio(current_clip.audio)
BRollClip(path, current_clip) ==
    [visual |-> path, audio |-> current_clip.audio]

\* The segment appended for a cut: CompositeVideoClip(layers), or current_clip
\* alone when compositing raised.
Segment(pos, current_clip, layers, composite_ok) ==
    [cut |-> pos, visual |-> current_clip.visual, audio |-> current_clip.audio,
     composite |-> composite_ok,
     layers |-> IF composite_ok THEN layers ELSE <<>>]

\* A wrong logo block: the composition is replaced although the block raised.
LogoAlways(video, ok) == <<[video[1] EXCEPT !.logo = TRUE]>>

\* final_video = CompositeVideoClip([final_video, logo]), reached only when
\* ImageClip, set_duration, resize and set_pos all returned.
WithLogo(video, ok) == IF ok THEN <<[video[1] EXCEPT !.logo = TRUE]>> ELSE video

Init ==
    /\ lines \in AssemblyScripts
    /\ i = Len(lines)
    /\ script_cues = ParseScript(lines).cues
    /\ dialogue_count = ParseScript(lines).count
    /\ cue_line = ParseScript(lines).cue_line
    /\ ppc = "done"
    /\ cut_list \in CutLists
    /\ b_roll_files \in BRollFiles
    /\ b_roll_keyword_map \in KeywordMaps
    /\ logo_file \in {"None", "logo.png"}
    /\ add_subtitles \in BOOLEAN
    /\ add_b_roll \in BOOLEAN
    /\ add_logo \in BOOLEAN
    /\ add_overlays \in BOOLEAN
    /\ apc = "open"
    /\ ci = 0
    /\ final_clips = <<>>
    /\ final_video = <<>>
    /\ handles = <<>>
    /\ result = "running"
    /\ escaped = "none"
    /\ extracted = {}
    /\ matched = <<>>
    /\ steps = <<>>
    /\ invoked = {}
    /\ logo_failed = FALSE
    /\ written = <<>>

\* main_clip = VideoFileClip(original_video_path); overlay_map = ...; final_clips = []
OpenSource ==
    /\ apc = "open"
    /\ \E ok \in BOOLEAN :
          IF ok
          THEN /\ handles' = Opened(handles, "main")
               /\ apc' = "loop"
               /\ UNCHANGED <<result, escaped>>
          ELSE \* the constructor raises outside any try block
               /\ apc' = "done"
               /\ result' = "raised"
               /\ escaped' = "VideoFileClip"
               /\ UNCHANGED handles
    /\ UNCHANGED <<pvars, args, ci, final_clips, final_video,
                   extracted, matched, steps, invoked, logo_failed, written>>

\* One iteration of `for i, cut in enumerate(cut_list)`.
ProcessCut ==
    /\ apc = "loop"
    /\ ci < Len(cut_list)
    /\ LET cut == At(cut_list, ci) IN
       IF CutRaises(cut)
       THEN IF cut.isdict
            THEN \* except Exception: print(... cut.get('start', 'unknown') ...); continue
                 /\ ci' = ci + 1
                 /\ UNCHANGED <<apc, final_clips, handles, result, escaped, extracted, matched, steps>>
            ELSE \* cut.get raises AttributeError inside the except block
                 /\ apc' = "done"
                 /\ result' = "raised"
                 /\ escaped' = "cut.get"
                 /\ UNCHANGED <<ci, final_clips, handles, extracted, matched, steps>>
       ELSE IF ~IntervalValid(cut.start.v, cut.end.v)
       THEN /\ ci' = ci + 1
            /\ UNCHANGED <<apc, final_clips, handles, result, escaped, extracted, matched, steps>>
       ELSE \E subclip_ok \in {b \in BOOLEAN : SubclipMustRaise(cut) => ~b} :
            IF ~subclip_ok
            THEN /\ ci' = ci + 1
                 /\ UNCHANGED <<apc, final_clips, handles, result, escaped, extracted, matched, steps>>
            ELSE
            LET matching == add_b_roll /\ b_roll_keyword_map # <<>>
                path == IF matching
                        THEN MatchedBRollPath(cut.text, b_roll_keyword_map, b_roll_files)
                        ELSE "None"
            IN
            \* each library call that is made either returns or raises
            \E b_roll \in (IF path # "None"
                           THEN {"open_raises", "process_raises", "ok"}
                           ELSE {"skipped"}),
               subtitle \in (IF add_subtitles THEN {"raised", "ok"} ELSE {"skipped"}),
               overlay \in (IF add_overlays /\ ci \in DOMAIN OverlayMap(script_cues)
                            THEN {"raised", "ok"} ELSE {"skipped"}),
               composite \in {"raised", "ok"} :
               LET current_clip == IF b_roll = "ok"
                                   THEN BRollClip(path, SubClip(cut))
                                   ELSE SubClip(cut)
               IN  /\ extracted' = extracted \cup {ci}
                   /\ matched' = IF matching THEN Append(matched, [cut |-> ci, path |-> path])
                                 ELSE matched
                   /\ steps' = Append(steps, [cut |-> ci, b_roll |-> b_roll,
                                              subtitle |-> subtitle, overlay |-> overlay,
                                              composite |-> composite])
                   /\ handles' = IF b_roll \in {"process_raises", "ok"}
                                 THEN Opened(handles, path) ELSE handles
                   /\ final_clips' = Append(final_clips,
                         Segment(ci, current_clip,
                                 Layers(cut, ci, subtitle = "ok", overlay = "ok"),
                                 composite = "ok"))
                   /\ ci' = ci + 1
                   /\ UNCHANGED <<apc, result, escaped>>
    /\ UNCHANGED <<pvars, args, final_video, invoked, logo_failed, written>>

\* if not final_clips: main_clip.close(); return None
NoClips ==
    /\ apc = "loop"
    /\ ci >= Len(cut_list)
    /\ final_clips = <<>>
    /\ handles' = CloseMain(handles)
    /\ result' = "None"
    /\ apc' = "done"
    /\ UNCHANGED <<pvars, args, ci, final_clips, final_video, escaped,
                   extracted, matched, steps, invoked, logo_failed, written>>

\* final_video = concatenate_videoclips(final_clips)
Concatenate ==
    /\ apc = "loop"
    /\ ci >= Len(cut_list)
    /\ final_clips # <<>>
    /\ invoked' = invoked \cup {"concatenate"}
    /\ \E ok \in BOOLEAN :
          IF ok
          THEN /\ final_video' = <<[clips |-> final_clips, logo |-> FALSE]>>
               /\ apc' = "logo"
               /\ UNCHANGED <<handles, result>>
          ELSE /\ handles' = CloseMain(handles)
               /\ result' = "None"
               /\ apc' = "done"
               /\ UNCHANGED final_video
    /\ UNCHANGED <<pvars, args, ci, final_clips, escaped, extracted, matched, steps,
                   logo_failed, written>>

\* if add_logo and logo_file: try: ... except: pass
AddLogo ==
    /\ apc = "logo"
    /\ IF add_logo /\ logo_file # "None"
       THEN \E ok \in BOOLEAN :
               /\ invoked' = invoked \cup {"logo"}
               /\ final_video' = WithLogo(final_video, ok)
               /\ logo_failed' = ~ok
       ELSE UNCHANGED <<invoked, final_video, logo_failed>>
    /\ apc' = "encode"
    /\ UNCHANGED <<pvars, args, ci, final_clips, handles, result, escaped,
                   extracted, matched, steps, written>>

\* final_video.write_videofile(output_path, ...); main_clip.close(); return
Encode ==
    /\ apc = "encode"
    /\ invoked' = invoked \cup {"encode"}
    /\ \E ok \in BOOLEAN :
          /\ written' = <<[video |-> final_video[1], ok |-> ok]>>
          /\ result' = IF ok THEN "path" ELSE "None"
    /\ handles' = CloseMain(handles)
    /\ apc' = "done"
    /\ UNCHANGED <<pvars, args, ci, final_clips, final_video, escaped,
                   extracted, matched, steps, logo_failed>>

Next == OpenSource \/ ProcessCut \/ NoClips \/ Concatenate \/ AddLogo \/ Encode

Spec == Init /\ [][Next]_vars

\* The cut lists of the per-segment composition: entries that reach the
\* composition, and an empty interval that is dropped ahead of it.
ComposeCutSet ==
    { Cut(AllKeys, Num(1), Num(3), TextCatDog),
      Cut(AllKeys, Num(2), Num(4), TextOther),
      Cut(AllKeys, Num(2), Num(2), TextCatDog) }

ComposeCutLists == UNION {[1..n -> ComposeCutSet] : n \in 0..MaxCuts}

\* assemble_video called on such a cut list, no logo requested.
InitCompose ==
    /\ Init
    /\ cut_list \in ComposeCutLists
    /\ ~add_logo
    /\ logo_file = "None"

SpecCompose == InitCompose /\ [][Next]_vars

\* ---------------------------------------------------------------------
\* Properties of parse_structured_script
\* ---------------------------------------------------------------------

\* The line indices of the script's 'dialogue:' marker lines.
DialogueMarkerLines ==
    {j \in 0..(Len(lines) - 1) : CleanLine(At(lines, j)) = "dialogue:"}

\* The 0-based rank of the last 'dialogue:' marker line before line m, or -1.
MarkerRankBefore(m) == Cardinality({j \in DialogueMarkerLines : j < m}) - 1

\* The positions in script_cues of the dialogue cues.
DialogueCuePositions ==
    {p \in 1..Len(script_cues) : script_cues[p].type = "dialogue"}

\* Every 'dialogue:' marker line is followed by a non-empty content line.
EveryDialogueHasContent ==
    \A j \in DialogueMarkerLines :
        j + 1 < Len(lines) /\ Strip(At(lines, j + 1)) # ""

\* C6: when each of the script's N 'dialogue:' marker lines is followed by a
\* non-empty content line, the parser returns exactly N dialogue cues, the
\* k-th of them (in output order) made from the k-th 'dialogue:' marker line
\* and carrying dialogue_index k-1, whatever other lines are interleaved.
C6_DialogueCuesNumbered ==
    (ppc = "done" /\ EveryDialogueHasContent) =>
        /\ Cardinality(DialogueCuePositions) = Cardinality(DialogueMarkerLines)
        /\ \A p \in DialogueCuePositions :
              /\ script_cues[p].dialogue_index =
                    Cardinality({q \in DialogueCuePositions : q < p})
              /\ cue_line[p] \in DialogueMarkerLines
              /\ script_cues[p].dialogue_index = MarkerRankBefore(cue_line[p]) + 1
              /\ script_cues[p].content = Strip(At(lines, cue_line[p] + 1))

\* Two dialogue cues with a b-roll or overlay cue emitted between them.
C6_Witness ==
    /\ ppc = "done"
    /\ EveryDialogueHasContent
    /\ \E p, q, r \in 1..Len(script_cues) :
          /\ p < q /\ q < r
          /\ script_cues[p].type = "dialogue"
          /\ script_cues[q].type # "dialogue"
          /\ script_cues[r].type = "dialogue"
          /\ script_cues[r].dialogue_index = 1

\* The dialogue_index of the last dialogue cue emitted before position p of
\* the output, or -1 when none precedes it.
PrecedingCueIndex(p) ==
    LET before == {q \in DialogueCuePositions : q < p}
    IN  IF before = {} THEN NoDialogue
        ELSE script_cues[CHOOSE q \in before : \A r \in before : r <= q].dialogue_index

\* C7: every b-roll or overlay cue carries the dialogue_index of the most
\* recent dialogue cue emitted before it, or -1 if no dialogue cue precedes it.
C7_LinkedToPrecedingCue ==
    ppc = "done" =>
        \A p \in 1..Len(script_cues) :
            script_cues[p].type # "dialogue" =>
                script_cues[p].dialogue_index = PrecedingCueIndex(p)

\* C8: every b-roll or overlay cue carries the 0-based rank, among all
\* 'dialogue:' marker lines, of the last such line strictly before the cue's
\* own marker line, or -1 if none precedes it.
C8_LinkedToMarkerRank ==
    \A p \in 1..Len(script_cues) :
        script_cues[p].type # "dialogue" =>
            script_cues[p].dialogue_index = MarkerRankBefore(cue_line[p])

\* A b-roll or overlay cue behind two 'dialogue:' marker lines, and one
\* ahead of every 'dialogue:' marker line.
C8_Witness ==
    /\ ppc = "done"
    /\ \E p \in 1..Len(script_cues) :
          /\ script_cues[p].type # "dialogue"
          /\ script_cues[p].dialogue_index = 1
          /\ Cardinality({j \in DialogueMarkerLines : j < cue_line[p]}) = 2

\* ---------------------------------------------------------------------
\* Properties of assemble_video
\* ---------------------------------------------------------------------

\* The cut-list entry at 0-based position k.
CutAt(k) == At(cut_list, k)

CutPositions == 0..(Len(cut_list) - 1)

\* The entry is an object with numeric start and end and a text.
HasFields(cut) ==
    cut.isdict /\ cut.keys = AllKeys /\ cut.start.num /\ cut.end.num

\* The entry is malformed: not an object, a key missing, a non-number,
\* end <= start, or a timestamp beyond the footage.
Malformed(cut) ==
    \/ ~HasFields(cut)
    \/ cut.end.v <= cut.start.v
    \/ cut.start.v > Duration
    \/ cut.end.v > Duration

\* The positions in final_clips of the segments made from cut position k.
SegmentsOf(k) == {p \in 1..Len(final_clips) : final_clips[p].cut = k}

\* The per-cut loop is over and the call went on to the final stage or returned.
LoopOver == apc \in {"logo", "encode"} \/ (apc = "done" /\ escaped = "none")

\* C1: a malformed cut-list entry is dropped and nothing else: no exception
\* escapes the per-cut loop, the loop goes on to the last entry, the entry
\* leaves no segment, and every well-formed entry whose footage was
\* extracted has its one segment.
C1_MalformedCutOnlyDropped ==
    /\ escaped # "cut.get"
    /\ \A k \in CutPositions :
          (k < ci /\ Malformed(CutAt(k))) => SegmentsOf(k) = {}
    /\ LoopOver =>
          /\ ci = Len(cut_list)
          /\ \A k \in CutPositions :
                (~Malformed(CutAt(k)) /\ k \in extracted) =>
                    Cardinality(SegmentsOf(k)) = 1

\* A keyword (a non-empty string) that occurs in the text, letter case ignored.
Occurs(keyword, text) ==
    keyword # <<>> /\ Contains(LowerText(keyword), LowerText(text))

\* The positions in the keyword map of the assets with a keyword in the text.
MatchingAssets(text) ==
    {k \in 1..Len(b_roll_keyword_map) :
        \E j \in 1..Len(b_roll_keyword_map[k].keywords) :
            Occurs(b_roll_keyword_map[k].keywords[j], text)}

\* The file of the first matching asset in map order; None when no asset
\* matches or that asset has no located file.
FirstMatchPath(text) ==
    IF MatchingAssets(text) = {} THEN "None"
    ELSE LET first == CHOOSE k \in MatchingAssets(text) :
                         \A j \in MatchingAssets(text) : k <= j
         IN  Get(b_roll_files, b_roll_keyword_map[first].filename)

\* C2: the b-roll asset chosen for a cut is the first asset, in map order,
\* with a keyword occurring in the cut's text (case-insensitive), whether or
\* not it has a located file; a later asset is never chosen in its place, and
\* none is chosen when none matches.
C2_FirstMatchWins ==
    \A m \in 1..Len(matched) :
        matched[m].path = FirstMatchPath(CutAt(matched[m].cut).text)

ConcatFailed == "concatenate" \in invoked /\ final_video = <<>>

EncodeFailed == written # <<>> /\ ~written[1].ok

\* C3: every call ends by returning the output path or None, never by
\* raising; it returns None exactly when no segment was composed or the
\* concatenation or the encode failed.
C3_ReturnsPathOrNone ==
    apc = "done" =>
        /\ result \in {"path", "None"}
        /\ result = "None" <=> (final_clips = <<>> \/ ConcatFailed \/ EncodeFailed)

\* C4: final_clips is an order-preserving subsequence of the cuts with
\* end > start: at most one segment per cut, in cut-list order, never more
\* segments than cuts, and none from a cut with end <= start.
C4_SegmentsSubsequenceOfCuts ==
    /\ Len(final_clips) <= Len(cut_list)
    /\ \A p \in 1..Len(final_clips) :
          /\ final_clips[p].cut \in CutPositions
          /\ final_clips[p].cut < ci
          /\ HasFields(CutAt(final_clips[p].cut))
          /\ CutAt(final_clips[p].cut).end.v > CutAt(final_clips[p].cut).start.v
    /\ \A p, q \in 1..Len(final_clips) :
          p < q => final_clips[p].cut < final_clips[q].cut

\* The second cut has its segment and the first, an empty or reversed
\* interval, left none.
C4_Witness ==
    /\ LoopOver
    /\ Len(cut_list) = 2
    /\ HasFields(CutAt(0))
    /\ CutAt(0).end.v <= CutAt(0).start.v
    /\ Len(final_clips) = 1
    /\ final_clips[1].cut = 1

\* C5: when every cut is invalid (or the list is empty) the call returns None
\* and never calls the concatenation, the logo compositing or the encoder.
\* Stated for the calls that opened the source footage.
C5_AllInvalidFails ==
    (apc = "done" /\ handles # <<>> /\ \A k \in CutPositions : Malformed(CutAt(k))) =>
        /\ result = "None"
        /\ invoked = {}
        /\ written = <<>>

\* C9: when the call ends, every media handle that was opened (the source
\* footage, each b-roll asset) has been closed exactly once.  Stated for the
\* calls that return; a call that raises is held to the same.
C9_HandlesReleasedOnce ==
    (apc = "done" /\ escaped = "none") =>
        \A h \in 1..Len(handles) : handles[h].closes = 1

\* C10: when the logo block fails, the composition handed to the encoder is
\* the logo-free concatenation of the segments, the encoder is still called,
\* and the call returns the path exactly when the encoder succeeds.
C10_LogoFailureDegrades ==
    logo_failed =>
        /\ final_video = <<[clips |-> final_clips, logo |-> FALSE]>>
        /\ apc \in {"encode", "done"}
        /\ apc = "done" =>
              /\ written # <<>>
              /\ written[1].video = [clips |-> final_clips, logo |-> FALSE]
              /\ result = IF written[1].ok THEN "path" ELSE "None"

\* The logo block failed and the video was still written.
C10_Witness ==
    /\ logo_failed
    /\ add_logo
    /\ "logo" \in invoked
    /\ apc = "done"
    /\ result = "path"

\* The entry is well-formed: numeric start < end, and a text.
WellFormed(cut) == HasFields(cut) /\ cut.end.v > cut.start.v

\* How the library calls made for cut position k ended.
StepsOf(k) == steps[CHOOSE n \in 1..Len(steps) : steps[n].cut = k]

\* The path matched for cut position k, or None.
MatchedPathOf(k) ==
    IF \E n \in 1..Len(matched) : matched[n].cut = k
    THEN matched[CHOOSE n \in 1..Len(matched) : matched[n].cut = k].path
    ELSE "None"

\* The positions in a segment's layers of the layers of one kind.
LayersOfKind(seg, kind) ==
    {l \in 1..Len(seg.layers) : seg.layers[l].kind = kind}

\* The positions in script_cues of the overlay cues with dialogue_index k.
OverlayCuesFor(k) ==
    {c \in 1..Len(script_cues) :
        script_cues[c].type = "overlay" /\ script_cues[c].dialogue_index = k}

\* The content of the last overlay cue, in script order, with dialogue_index k.
LastOverlayText(k) ==
    script_cues[CHOOSE c \in OverlayCuesFor(k) :
                    \A d \in OverlayCuesFor(k) : d <= c].content

\* C11: every well-formed cut whose footage was extracted has exactly one
\* segment, whatever later calls fail: a b-roll failure leaves the original
\* footage as its picture, a subtitle or overlay rendering failure omits that
\* layer alone (the other is still attempted and kept), and a compositing
\* failure leaves the un-layered base or b-roll clip.
C11_FailuresIsolatedPerSegment ==
    \A k \in CutPositions :
        (k < ci /\ WellFormed(CutAt(k)) /\ k \in extracted) =>
            /\ Cardinality(SegmentsOf(k)) = 1
            /\ LET seg == final_clips[CHOOSE p \in SegmentsOf(k) : TRUE]
                   st == StepsOf(k)
               IN  /\ seg.visual = IF st.b_roll = "ok" THEN MatchedPathOf(k) ELSE "main"
                   /\ add_subtitles => st.subtitle \in {"raised", "ok"}
                   /\ (add_overlays /\ OverlayCuesFor(k) # {}) =>
                          st.overlay \in {"raised", "ok"}
                   /\ IF st.composite = "ok"
                      THEN /\ seg.composite
                           /\ Cardinality(LayersOfKind(seg, "subtitle")) =
                                 IF st.subtitle = "ok" THEN 1 ELSE 0
                           /\ Cardinality(LayersOfKind(seg, "overlay")) =
                                 IF st.overlay = "ok" THEN 1 ELSE 0
                      ELSE ~seg.composite /\ seg.layers = <<>>

\* The b-roll processing and the subtitle rendering failed, the overlay did
\* not: the segment is there, on the original footage, with its overlay.
C11_Witness ==
    \E n \in 1..Len(steps) :
        /\ steps[n].b_roll = "process_raises"
        /\ steps[n].subtitle = "raised"
        /\ steps[n].overlay = "ok"
        /\ steps[n].composite = "ok"
        /\ \E p \in SegmentsOf(steps[n].cut) :
              /\ final_clips[p].visual = "main"
              /\ LayersOfKind(final_clips[p], "overlay") # {}
              /\ LayersOfKind(final_clips[p], "subtitle") = {}

\* C12 as stated: the segment of cut position k has an overlay layer exactly
\* when overlays are enabled, an overlay cue has dialogue_index k and its
\* rendering succeeds; the layer shows the last such cue; and with subtitles
\* enabled and no overlay cue for k the segment has exactly one subtitle
\* layer and no overlay layer.
C12_OverlayByCutPosition_Original ==
    \A p \in 1..Len(final_clips) :
        LET seg == final_clips[p]
            k == seg.cut
            st == StepsOf(k)
        IN  /\ LayersOfKind(seg, "overlay") # {} <=>
                  (add_overlays /\ OverlayCuesFor(k) # {} /\ st.overlay = "ok")
            /\ \A l \in LayersOfKind(seg, "overlay") :
                  seg.layers[l].text = LastOverlayText(k)
            /\ (add_subtitles /\ OverlayCuesFor(k) = {}) =>
                  /\ Cardinality(LayersOfKind(seg, "subtitle")) = 1
                  /\ LayersOfKind(seg, "overlay") = {}

\* C12 (amended): the segment of cut position k (counted over all cuts) has
\* an overlay layer exactly when overlays are enabled, an overlay cue has
\* dialogue_index k, its rendering succeeds and the compositing succeeds; the
\* layer shows the last such cue in script order; cues with dialogue_index -1
\* are never shown; with subtitles enabled and no overlay cue for k the
\* segment has no overlay layer, and exactly one subtitle layer when the
\* subtitle rendering and the compositing succeed, none otherwise.
C12_OverlayByCutPosition ==
    \A p \in 1..Len(final_clips) :
        LET seg == final_clips[p]
            k == seg.cut
            st == StepsOf(k)
        IN  /\ k # NoDialogue
            /\ Cardinality(LayersOfKind(seg, "overlay")) =
                  IF add_overlays /\ OverlayCuesFor(k) # {}
                     /\ st.overlay = "ok" /\ st.composite = "ok"
                  THEN 1 ELSE 0
            /\ \A l \in LayersOfKind(seg, "overlay") :
                  seg.layers[l].text = LastOverlayText(k)
            /\ (add_subtitles /\ OverlayCuesFor(k) = {}) =>
                  /\ Cardinality(LayersOfKind(seg, "subtitle")) =
                        IF st.subtitle = "ok" /\ st.composite = "ok" THEN 1 ELSE 0
                  /\ LayersOfKind(seg, "overlay") = {}

\* The first cut was dropped and the second, at position 1, shows the later
\* of the two overlay cues with dialogue_index 1.
C12_Witness ==
    /\ SegmentsOf(0) = {}
    /\ Cardinality(OverlayCuesFor(1)) = 2
    /\ \E p \in SegmentsOf(1) :
          /\ LayersOfKind(final_clips[p], "overlay") # {}
          /\ \A l \in LayersOfKind(final_clips[p], "overlay") :
                final_clips[p].layers[l].text = "World"

\* The positions in the keyword map of the assets located at the path.
AssetsAt(path) ==
    {a \in 1..Len(b_roll_keyword_map) :
        Get(b_roll_files, b_roll_keyword_map[a].filename) = path}

\* C13: every segment carries the sound of the source footage over its cut's
\* interval, whatever its picture; its picture is a b-roll asset only if
\* b-roll is enabled, the keyword map is not empty, a keyword of that asset
\* occurs in the cut's text and the asset was opened and processed without
\* failure; otherwise it is the source footage.
C13_BRollReplacesPictureOnly ==
    \A p \in 1..Len(final_clips) :
        LET seg == final_clips[p]
            cut == CutAt(seg.cut)
        IN  /\ seg.audio = [src |-> "main", start |-> cut.start.v, end |-> cut.end.v]
            /\ seg.visual # "main" =>
                  /\ add_b_roll
                  /\ b_roll_keyword_map # <<>>
                  /\ \E a \in AssetsAt(seg.visual) : a \in MatchingAssets(cut.text)
                  /\ StepsOf(seg.cut).b_roll = "ok"
            /\ (~add_b_roll \/ b_roll_keyword_map = <<>>
                \/ MatchingAssets(cut.text) = {}
                \/ StepsOf(seg.cut).b_roll # "ok") => seg.visual = "main"

\* A segment whose picture is a b-roll asset and whose sound is the footage's.
C13_Witness ==
    \E p \in 1..Len(final_clips) :
        /\ final_clips[p].visual \in {"p1", "p2"}
        /\ final_clips[p].audio.src = "main"
        /\ StepsOf(final_clips[p].cut).b_roll = "ok"

====
